---- MODULE Spec2Model ----
(***************************************************************************)
(* Proof-of-work block model of src/src/index.ts: the Block class          *)
(* (constructor, calculateHash, mineBlock), isValidHash and the way        *)
(* simulatePoW builds, mines and tampers with a chain of blocks.           *)
(*                                                                         *)
(* A JavaScript string is a sequence of one-character strings, so that     *)
(* concatenation, substring and the decimal form of a number are computed  *)
(* as the code computes them.                                              *)
(***************************************************************************)
EXTENDS Integers, Sequences, FiniteSets, TLC

VARIABLES
    chain,      \* the Block objects the program holds, in order of construction
    call,       \* the invocation in progress, or the last one that returned
    mined,      \* positions of the blocks on which mineBlock has returned
    written     \* positions of the blocks whose data was assigned directly

vars == <<chain, call, mined, written>>

(***************************************************************************)
(* Bounds of the model.                                                    *)
(***************************************************************************)
MaxBlocks == 2
MaxNonce == 10

\* const DIFFICULTY = 4
DIFFICULTY == 4

(***************************************************************************)
(* Strings.                                                                *)
(***************************************************************************)
DigitChars == <<"0", "1", "2", "3", "4", "5", "6", "7", "8", "9">>

\* Number -> string conversion of `number + string` for a non-negative
\* integer: its decimal digits, most significant first, no leading zero.
RECURSIVE NumberToString(_)
NumberToString(n) ==
    IF n < 10 THEN <<DigitChars[n + 1]>>
    ELSE NumberToString(n \div 10) \o <<DigitChars[(n % 10) + 1]>>

\* The body of JSON.stringify of a string: a quote and a backslash are
\* escaped with a backslash.
RECURSIVE JSONEscape(_)
JSONEscape(s) ==
    IF s = <<>> THEN <<>>
    ELSE (IF Head(s) \in {"\"", "\\"} THEN <<"\\", Head(s)>> ELSE <<Head(s)>>)
         \o JSONEscape(Tail(s))

\* JSON.stringify(this.data) for a string: the escaped body between quotes.
JSONstringify(s) == <<"\"">> \o JSONEscape(s) \o <<"\"">>

\* String.prototype.substring(from, to) for 0 <= from <= to: the characters
\* at positions from .. to-1, cut at the end of the string.
Substring(s, from, to) ==
    SubSeq(s, from + 1, IF to < Len(s) THEN to ELSE Len(s))

\* Array(n).join(sep): n empty slots joined, that is n-1 copies of sep.
ArrayJoin(n, sep) == [i \in 1..(n - 1) |-> sep]

(***************************************************************************)
(* CryptoJS.SHA256(...).toString(): a deterministic digest of fixed length *)
(* over hexadecimal characters.  The library function is abstracted by a   *)
(* multiplicative rolling digest over the character codes, HashLen         *)
(* characters long, written with the hexadecimal digits 0 and 1 only, so   *)
(* that DIFFICULTY leading zeros are found within a few nonces.            *)
(***************************************************************************)
HashLen == 8
HashMult == 41
HashSeed == 7

Pow2(n) == IF n = 0 THEN 1 ELSE 2 ^ n

\* charCode of the characters the model's strings are made of (ASCII).
CharCode(c) ==
    CASE c = "0" -> 48 [] c = "1" -> 49 [] c = "2" -> 50 [] c = "3" -> 51
      [] c = "4" -> 52 [] c = "5" -> 53 [] c = "6" -> 54 [] c = "7" -> 55
      [] c = "8" -> 56 [] c = "9" -> 57 [] c = "\"" -> 34 [] c = "\\" -> 92
      [] c = "a" -> 97 [] c = "b" -> 98 [] c = "c" -> 99

RECURSIVE Mix(_, _)
Mix(h, s) ==
    IF s = <<>> THEN h
    ELSE Mix((h * HashMult + CharCode(Head(s))) % Pow2(HashLen), Tail(s))

\* the digest value written out, most significant digit first
DigestString(h) ==
    [i \in 1..HashLen |-> IF (h \div Pow2(HashLen - i)) % 2 = 0 THEN "0" ELSE "1"]

\* a last round spreads the final characters of the input over the digest
SHA256(s) == DigestString((Mix(HashSeed, s) * HashMult) % Pow2(HashLen))

(***************************************************************************)
(* Block                                                                   *)
(***************************************************************************)
\* the argument of calculateHash's SHA256 call: the five fields concatenated
HashInput(b) ==
    NumberToString(b.index) \o b.previousHash \o NumberToString(b.timestamp)
        \o JSONstringify(b.data) \o NumberToString(b.nonce)

\* a calculateHash that leaves this.data out of the hashed string
calculateHash_NoData(b) ==
    SHA256(NumberToString(b.index) \o b.previousHash
               \o NumberToString(b.timestamp) \o NumberToString(b.nonce))

calculateHash(b) == SHA256(HashInput(b))

\* function isValidHash(hash)
isValidHash(hash) ==
    Substring(hash, 0, DIFFICULTY) = ArrayJoin(DIFFICULTY + 1, "0")

\* a loop that compares one character too few
MineLoopCondition_OneShort(hash) ==
    Substring(hash, 0, DIFFICULTY - 1) # ArrayJoin(DIFFICULTY, "0")

\* the condition of mineBlock's while loop
MineLoopCondition(hash) ==
    Substring(hash, 0, DIFFICULTY) # ArrayJoin(DIFFICULTY + 1, "0")

\* the values a block's data takes in the model
Datas == {<<"a">>, <<"b">>}

\* the values Date.now() returns
Timestamps == {1, 2}

\* the constructor's third argument when the caller omits it (undefined); no
\* string is equal to it, a string being a sequence of single characters
NoArg == <<"undefined">>

\* a constructor that computes the hash before it assigns previousHash
NewBlockValue_HashFirst(index, data, previousHashArg, now) ==
    LET prev == IF previousHashArg = NoArg THEN <<>> ELSE previousHashArg
    IN  [index |-> index,
         timestamp |-> now,
         data |-> data,
         previousHash |-> prev,
         nonce |-> 0,
         hash |-> calculateHash([index |-> index, timestamp |-> now,
                                 data |-> data, previousHash |-> <<>>,
                                 nonce |-> 0])]

\* the state of a Block after its constructor has run (lines 18-23)
NewBlockValue(index, data, previousHashArg, now) ==
    LET fields == [index |-> index,
                   timestamp |-> now,
                   data |-> data,
                   previousHash |-> IF previousHashArg = NoArg THEN <<>>
                                    ELSE previousHashArg,
                   nonce |-> 0]
    IN  [index |-> fields.index,
         timestamp |-> fields.timestamp,
         data |-> fields.data,
         previousHash |-> fields.previousHash,
         nonce |-> fields.nonce,
         hash |-> calculateHash(fields)]

\* no invocation is in progress: the program is single-threaded and mineBlock
\* runs to completion before anything else happens
Idle == ~call.running

NoCall == [op |-> "none", blk |-> 0, running |-> FALSE, argc |-> 0,
           nonce0 |-> 0, hash0 |-> <<>>, steps |-> 0]

Init ==
    /\ chain = <<>>
    /\ call = NoCall
    /\ mined = {}
    /\ written = {}

\* new Block(index, data, previousHash) or new Block(index, data); the block
\* is appended to the blocks the program holds
NewBlock(index, data, previousHashArg, now) ==
    /\ Idle
    /\ Len(chain) < MaxBlocks
    /\ chain' = Append(chain, NewBlockValue(index, data, previousHashArg, now))
    /\ call' = [NoCall EXCEPT !.op = "new", !.blk = Len(chain) + 1,
                              !.argc = IF previousHashArg = NoArg THEN 2 ELSE 3]
    /\ UNCHANGED <<mined, written>>

\* a driver that links every block to the sentinel "0"
DriverNewBlock_Unlinked ==
    \E data \in Datas, now \in Timestamps :
        /\ chain # <<>> => Len(chain) \in mined
        /\ NewBlock(Len(chain), data, <<"0">>, now)

\* simulatePoW's constructions: the first block with previousHash "0", every
\* later block with the stored hash of its predecessor, after mineBlock has
\* returned on the predecessor; index is the block's position
DriverNewBlock ==
    \E data \in Datas, now \in Timestamps :
        IF chain = <<>>
        THEN NewBlock(0, data, <<"0">>, now)
        ELSE /\ Len(chain) \in mined
             /\ NewBlock(Len(chain), data, chain[Len(chain)].hash, now)

\* the constructor called with any arguments: any index, the third argument
\* omitted, "0", or the stored hash of a block
Indices == {0, 1, 10}

AnyNewBlock ==
    \E index \in Indices, data \in Datas, now \in Timestamps,
       previousHashArg \in {NoArg, <<"0">>} \cup {chain[i].hash : i \in 1..Len(chain)} :
        NewBlock(index, data, previousHashArg, now)

\* block.mineBlock() is called
MineCall ==
    \E i \in 1..Len(chain) :
        /\ Idle
        /\ call' = [NoCall EXCEPT !.op = "mine", !.blk = i, !.running = TRUE,
                                  !.nonce0 = chain[i].nonce,
                                  !.hash0 = chain[i].hash]
        /\ UNCHANGED <<chain, mined, written>>

\* a loop body that also stamps the block again
MineIteration_Restamp(b) ==
    LET b1 == [b EXCEPT !.nonce = b.nonce + 1, !.timestamp = b.timestamp + 1]
    IN  [b1 EXCEPT !.hash = calculateHash(b1)]

\* a loop body that tries every second nonce
MineIteration_SkipNonce(b) ==
    LET b1 == [b EXCEPT !.nonce = b.nonce + 2]
    IN  [b1 EXCEPT !.hash = calculateHash(b1)]

\* the block after one iteration of mineBlock's loop body (lines 48-49)
MineIteration(b) ==
    LET b1 == [b EXCEPT !.nonce = b.nonce + 1]
    IN  [b1 EXCEPT !.hash = calculateHash(b1)]

\* one iteration of the while loop of mineBlock
MineStep ==
    /\ call.running
    /\ call.op = "mine"
    /\ MineLoopCondition(chain[call.blk].hash)
    /\ chain[call.blk].nonce < MaxNonce
    /\ chain' = [chain EXCEPT ![call.blk] = MineIteration(chain[call.blk])]
    /\ call' = [call EXCEPT !.steps = call.steps + 1]
    /\ UNCHANGED <<mined, written>>

\* the loop condition is false: mineBlock returns
MineReturn ==
    /\ call.running
    /\ call.op = "mine"
    /\ ~MineLoopCondition(chain[call.blk].hash)
    /\ call' = [call EXCEPT !.running = FALSE]
    /\ mined' = mined \cup {call.blk}
    /\ UNCHANGED <<chain, written>>

\* block.data = value (line 108), on any block
WriteData ==
    \E i \in 1..Len(chain), data \in Datas :
        /\ Idle
        /\ chain' = [chain EXCEPT ![i].data = data]
        /\ call' = [NoCall EXCEPT !.op = "write", !.blk = i]
        /\ written' = written \cup {i}
        /\ UNCHANGED mined

\* the program as simulatePoW drives it: a chain built block after block,
\* mineBlock called on any block, data assigned on any block
Next ==
    \/ DriverNewBlock
    \/ MineCall
    \/ MineStep
    \/ MineReturn
    \/ WriteData

Spec == Init /\ [][Next]_vars

\* mineBlock is a sequential loop that runs to completion: an iteration or the
\* return that is possible is taken
FairSpec == Spec /\ WF_vars(MineStep) /\ WF_vars(MineReturn)

\* the constructor alone, called with any arguments
NextAnyArgs == AnyNewBlock

SpecAnyArgs == Init /\ [][NextAnyArgs]_vars

(***************************************************************************)
(* Properties                                                              *)
(***************************************************************************)
\* mineBlock has returned and nothing has been invoked since
MineReturned == call.op = "mine" /\ ~call.running

\* the consistency check block.hash === block.calculateHash()
Consistent(b) == b.hash = calculateHash(b)

\* the step assigns another value to the data of block i
DataChanged(i) ==
    /\ i \in 1..Len(chain)
    /\ call'.op = "write"
    /\ call'.blk = i
    /\ Len(chain') = Len(chain)
    /\ chain'[i].data # chain[i].data

\* C1: whenever mineBlock returns, the block's stored hash starts with
\* DIFFICULTY characters '0': isValidHash(block.hash) is true.
C1_MinedHashIsValid ==
    MineReturned => isValidHash(chain[call.blk].hash)

\* mineBlock has returned after a search of at least one iteration
C1_Witness ==
    /\ MineReturned
    /\ call.steps > 0
    /\ isValidHash(chain[call.blk].hash)

\* C2: whenever mineBlock returns, the stored hash equals calculateHash() on
\* the block's current index, previousHash, timestamp, data and nonce, also
\* for a block that was mined, had its data changed and is mined again.
C2_MinedHashIsCurrent ==
    MineReturned => Consistent(chain[call.blk])

\* C3: whenever mineBlock returns, the block's nonce is the smallest
\* non-negative integer n for which the hash of (index, previousHash,
\* timestamp, data, n) satisfies the difficulty predicate.
C3_MinedNonceIsLeast ==
    MineReturned =>
        LET b == chain[call.blk]
        IN  /\ isValidHash(calculateHash(b))
            /\ \A n \in 0..(b.nonce - 1) :
                   ~isValidHash(calculateHash([b EXCEPT !.nonce = n]))

C5_DefaultPreviousHash ==
    (call.op = "new" /\ call.argc = 2) =>
        chain[call.blk].previousHash = <<"0">>

\* C6: right after construction the nonce is 0 and the stored hash is the
\* hash of the fields with nonce 0, valid or not; and as long as no data was
\* written directly, every block's stored hash equals calculateHash() on its
\* current fields.
C6_HashOfCurrentFields ==
    /\ call.op = "new" =>
           /\ chain[call.blk].nonce = 0
           /\ chain[call.blk].hash =
                  calculateHash([index |-> chain[call.blk].index,
                                 previousHash |-> chain[call.blk].previousHash,
                                 timestamp |-> chain[call.blk].timestamp,
                                 data |-> chain[call.blk].data,
                                 nonce |-> 0])
    /\ written = {} => \A i \in 1..Len(chain) : Consistent(chain[i])

\* a block has just been constructed with a hash that does not satisfy the
\* difficulty predicate, behind a block that mining has changed
C6_Witness ==
    /\ call.op = "new"
    /\ call.blk = 2
    /\ ~isValidHash(chain[2].hash)
    /\ chain[1].nonce > 0
    /\ written = {}

\* C7: every step of mineBlock leaves the block's index, timestamp, data and
\* previousHash, and every field of every other block, unchanged.
C7_MineFrame ==
    [][(call'.op = "mine" /\ (call.running \/ call'.running)) =>
          /\ Len(chain') = Len(chain)
          /\ \A j \in 1..Len(chain) :
                /\ j # call'.blk => chain'[j] = chain[j]
                /\ chain'[j].index = chain[j].index
                /\ chain'[j].timestamp = chain[j].timestamp
                /\ chain'[j].data = chain[j].data
                /\ chain'[j].previousHash = chain[j].previousHash]_vars

\* mineBlock has changed the nonce of a block that has a predecessor
C7_Witness ==
    /\ call.op = "mine"
    /\ call.blk > 1
    /\ call.steps > 0
    /\ chain[call.blk].nonce > call.nonce0

\* chain-level validation: every block passes the difficulty check and the
\* consistency check, and every block's previousHash is the stored hash of its
\* predecessor, first to last
ChainValid(c) ==
    /\ \A i \in 1..Len(c) : isValidHash(c[i].hash) /\ Consistent(c[i])
    /\ \A i \in 2..Len(c) : c[i].previousHash = c[i - 1].hash

\* C8: for a chain built as the driver builds it, with every block mined,
\* chain-level validation is true as long as no data was written, and a
\* change of the data of any one block of a valid chain makes it false.
C8_ChainValidation ==
    [][/\ (chain' # <<>> /\ mined' = 1..Len(chain') /\ written' = {})
              => ChainValid(chain')
       /\ \A i \in 1..Len(chain) :
              (DataChanged(i) /\ ChainValid(chain)) => ~ChainValid(chain')]_vars

\* the data of one block of a mined chain of at least two blocks has just
\* been changed, and chain-level validation reports false
C8_Witness ==
    /\ call.op = "write"
    /\ Len(chain) >= 2
    /\ mined = 1..Len(chain)
    /\ written = {call.blk}
    /\ \A i \in 1..Len(chain) : isValidHash(chain[i].hash)
    /\ ~ChainValid(chain)

\* what mineBlock tests for nonce n of the call in progress: the hash stored
\* at the call for the nonce held at the call, the computed hash above it
C9_Good(n) ==
    IF n = call.nonce0 THEN isValidHash(call.hash0)
    ELSE isValidHash(calculateHash([chain[call.blk] EXCEPT !.nonce = n]))

\* C9: mineBlock returns exactly if the stored hash, or the hash of a nonce
\* above the one held at the call, satisfies the difficulty predicate; it
\* then has made as many increments as the first such nonce is away, none
\* when the stored hash satisfies the predicate already, nonce and hash then
\* being unchanged.
C9_MineTermination ==
    /\ [](MineReturned =>
            LET b == chain[call.blk]
            IN  /\ b.nonce >= call.nonce0
                /\ C9_Good(b.nonce)
                /\ \A n \in call.nonce0..(b.nonce - 1) : ~C9_Good(n)
                /\ call.steps = b.nonce - call.nonce0
                /\ isValidHash(call.hash0) =>
                       /\ call.steps = 0
                       /\ b.nonce = call.nonce0
                       /\ b.hash = call.hash0)
    /\ ((call.op = "mine" /\ call.running
            /\ \E n \in call.nonce0..MaxNonce : C9_Good(n))
        ~> MineReturned)

\* mineBlock has returned after three increments or more
C9_Witness ==
    /\ MineReturned
    /\ call.steps >= 3
    /\ ~isValidHash(call.hash0)

\* C10: two blocks that differ in index, previousHash, timestamp, data or
\* nonce never give calculateHash the same string to hash.
C10_HashInputInjective ==
    \A i, j \in 1..Len(chain) :
        <<chain[i].index, chain[i].previousHash, chain[i].timestamp,
          chain[i].data, chain[i].nonce>>
          # <<chain[j].index, chain[j].previousHash, chain[j].timestamp,
              chain[j].data, chain[j].nonce>>
        => HashInput(chain[i]) # HashInput(chain[j])

====
